---- MODULE Spec2Model ----
(***************************************************************************)
(* The xdb Maker of ip2region (maker/python/xdb/maker.py): the build of    *)
(* the binary database from a text file of `start|end|region` lines; and   *)
(* the benchmark of the v1.0 python binding (benchmark.py): threads that   *)
(* search under one lock.                                                  *)
(*                                                                         *)
(* Representation of the Python values:                                    *)
(*  - a str is a run-length sequence of [c |-> code point, n |-> count],   *)
(*    adjacent runs having different code points (one str, one value);     *)
(*  - a bytes value is a sequence of [pat |-> bytes, n |-> count], the     *)
(*    pattern repeated n times; it is read with ByteOf and BytesLen only;  *)
(*  - a binary file is the list of the writes made to it, each with its    *)
(*    offset; the byte at an offset is the one of the last write that      *)
(*    covers it, 0 in a hole below the end of the file;                    *)
(*  - the 256 x 256 vector index is a function on the <<row, col>> that    *)
(*    were assigned; every other cell is the VectorIndexBlock() of         *)
(*    new_maker, (0, 0).                                                   *)
(***************************************************************************)
EXTENDS Integers, Sequences, FiniteSets, TLC

(* ------------------------------------------------------------------ *)
(* Program constants                                                   *)
(* ------------------------------------------------------------------ *)
Version_No == 2
Header_Info_Length == 256
Vector_Index_Rows == 256
Vector_Index_Cols == 256
Vector_Index_Size == 8
Vector_Index_Length == Vector_Index_Rows * Vector_Index_Cols * Vector_Index_Size
\* idx.Segment_Index_Block_Size: 4 + 4 + 2 + 4 bytes
Segment_Index_Block_Size == 14
\* idx.Vector_Index_Policy and the code of the b-tree policy
Vector_Index_Policy == 1
BTree_Index_Policy == 2
\* 0xFFFF, the largest encoded region
Max_Region_Bytes == 65535
\* the size of one vector bucket: the IPs sharing their two high bytes
Bucket_Size == 65536

(* ------------------------------------------------------------------ *)
(* Bounds of the model                                                 *)
(* ------------------------------------------------------------------ *)
\* the longest source file, in lines
MaxLines == 2

\* the threads of the benchmark (10000 in benchmark.py)
MaxThreads == 3
Threads == 1..MaxThreads

(* ------------------------------------------------------------------ *)
(* Python str                                                          *)
(* ------------------------------------------------------------------ *)
Min(S) == CHOOSE x \in S : \A y \in S : x <= y
Max(S) == CHOOSE x \in S : \A y \in S : x >= y

Run(c, n) == [c |-> c, n |-> n]

Chr(c) == <<Run(c, 1)>>

\* a + b
Cat(a, b) ==
    IF a = <<>> THEN b
    ELSE IF b = <<>> THEN a
    ELSE IF a[Len(a)].c = b[1].c
         THEN SubSeq(a, 1, Len(a) - 1)
                \o <<Run(b[1].c, a[Len(a)].n + b[1].n)>> \o Tail(b)
         ELSE a \o b

\* c * n
Repeat(c, n) == IF n = 0 THEN <<>> ELSE <<Run(c, n)>>

\* the str of a list of code points
RECURSIVE Str(_)
Str(cs) == IF cs = <<>> THEN <<>> ELSE Cat(Chr(Head(cs)), Str(Tail(cs)))

\* len(t)
RECURSIVE StrLen(_)
StrLen(t) == IF t = <<>> THEN 0 ELSE t[1].n + StrLen(Tail(t))

\* t without its first i-1 runs and the first character of run i
AfterHit(t, i) ==
    (IF t[i].n > 1 THEN <<Run(t[i].c, t[i].n - 1)>> ELSE <<>>)
        \o SubSeq(t, i + 1, Len(t))

\* t.split(sep, maxsplit): at most maxsplit cuts, from the left; -1: no limit
RECURSIVE Split(_, _, _)
Split(t, sep, maxsplit) ==
    LET hits == {i \in DOMAIN t : t[i].c = sep}
    IN  IF maxsplit = 0 \/ hits = {} THEN <<t>>
        ELSE <<SubSeq(t, 1, Min(hits) - 1)>>
                \o Split(AfterHit(t, Min(hits)), sep, maxsplit - 1)

\* the line boundaries of str.splitlines: \n \v \f \r FS GS RS NEL LS PS
Line_Boundaries == {10, 11, 12, 13, 28, 29, 30, 133, 8232, 8233}

\* t.splitlines(): no line breaks kept, no empty last line. The text read
\* from a file opened in text mode holds no \r (universal newlines), so the
\* two-character boundary \r\n does not occur.
RECURSIVE splitlines(_)
splitlines(t) ==
    LET hits == {i \in DOMAIN t : t[i].c \in Line_Boundaries}
    IN  IF t = <<>> THEN <<>>
        ELSE IF hits = {} THEN <<t>>
        ELSE <<SubSeq(t, 1, Min(hits) - 1)>>
                \o splitlines(AfterHit(t, Min(hits)))

\* the code points of a (short) str, one by one
RECURSIVE Expand(_)
Expand(t) == IF t = <<>> THEN <<>> ELSE <<t[1].c>> \o Expand(AfterHit(t, 1))

(* ------------------------------------------------------------------ *)
(* Python bytes                                                        *)
(* ------------------------------------------------------------------ *)
Raw(bs) == IF bs = <<>> THEN <<>> ELSE <<[pat |-> bs, n |-> 1]>>

Zeros(n) == IF n = 0 THEN <<>> ELSE <<[pat |-> <<0>>, n |-> n]>>

\* len(b)
RECURSIVE BytesLen(_)
BytesLen(b) == IF b = <<>> THEN 0 ELSE Len(b[1].pat) * b[1].n + BytesLen(Tail(b))

\* b[k], k from 0
RECURSIVE ByteOf(_, _)
ByteOf(b, k) ==
    IF k < Len(b[1].pat) * b[1].n
    THEN b[1].pat[(k % Len(b[1].pat)) + 1]
    ELSE ByteOf(Tail(b), k - Len(b[1].pat) * b[1].n)

\* the UTF-8 encoding of one code point
Utf8Char(c) ==
    IF c < 128 THEN <<c>>
    ELSE IF c < 2048 THEN <<192 + (c \div 64), 128 + (c % 64)>>
    ELSE IF c < 65536
         THEN <<224 + (c \div 4096), 128 + ((c \div 64) % 64), 128 + (c % 64)>>
    ELSE <<240 + (c \div 262144), 128 + ((c \div 4096) % 64),
           128 + ((c \div 64) % 64), 128 + (c % 64)>>

\* bytes(t, encoding="utf-8")
Utf8(t) == [i \in DOMAIN t |-> [pat |-> Utf8Char(t[i].c), n |-> t[i].n]]

\* n.to_bytes(width, byteorder="little"), struct.pack("<I", n), ("<H", n)
RECURSIVE LE(_, _)
LE(n, width) == IF width = 0 THEN <<>> ELSE <<n % 256>> \o LE(n \div 256, width - 1)

(* ------------------------------------------------------------------ *)
(* A binary file handle: the cursor and the writes made                *)
(* ------------------------------------------------------------------ *)
EmptyFile == [pos |-> 0, log |-> <<>>]

\* f.seek(off, 0)
Seek(f, off) == [f EXCEPT !.pos = off]

\* f.seek(0, 1): the cursor
Tell(f) == f.pos

\* f.write(b), by the statement `site` of the Maker
Write(f, b, site) ==
    [pos |-> f.pos + BytesLen(b),
     log |-> Append(f.log, [off |-> f.pos, data |-> b, site |-> site])]

WriteEnd(w) == w.off + BytesLen(w.data)

FileSize(f) == IF f.log = <<>> THEN 0
               ELSE Max({WriteEnd(f.log[i]) : i \in DOMAIN f.log})

\* the byte the file holds at offset o
FileByte(f, o) ==
    LET cover == {i \in DOMAIN f.log : f.log[i].off <= o /\ o < WriteEnd(f.log[i])}
    IN  IF cover = {} THEN 0
        ELSE ByteOf(f.log[Max(cover)].data, o - f.log[Max(cover)].off)

\* the little-endian unsigned integer of `width` bytes at offset o
RECURSIVE FileUInt(_, _, _)
FileUInt(f, o, width) ==
    IF width = 0 THEN 0
    ELSE FileByte(f, o) + 256 * FileUInt(f, o + 1, width - 1)

\* the writes of one statement, in the order made
WritesOf(f, site) == SelectSeq(f.log, LAMBDA w : w.site = site)

(* ------------------------------------------------------------------ *)
(* xdb.util, xdb.segment, xdb.index                                    *)
(* ------------------------------------------------------------------ *)
IsDigits(cs) == cs # <<>> /\ \A i \in DOMAIN cs : cs[i] \in 48..57

RECURSIVE DecVal(_)
DecVal(cs) ==
    IF cs = <<>> THEN 0
    ELSE 10 * DecVal(SubSeq(cs, 1, Len(cs) - 1)) + (cs[Len(cs)] - 48)

\* util.check_ip: the value of an IPv4 literal, -1 when it does not parse.
\* A literal is four decimal bytes joined by '.', or one decimal number.
check_ip(t) ==
    IF StrLen(t) > 15 THEN -1
    ELSE LET ps == Split(t, 46, -1)
             ds == [i \in DOMAIN ps |-> Expand(ps[i])]
         IN  IF Len(ps) = 4
             THEN IF \A i \in 1..4 :
                        IsDigits(ds[i]) /\ Len(ds[i]) <= 3 /\ DecVal(ds[i]) <= 255
                  THEN DecVal(ds[1]) * 16777216 + DecVal(ds[2]) * 65536
                       + DecVal(ds[3]) * 256 + DecVal(ds[4])
                  ELSE -1
             ELSE IF Len(ps) = 1 /\ IsDigits(ds[1]) /\ Len(ds[1]) <= 9
             THEN DecVal(ds[1])
             ELSE -1

\* seg.Segment(sip, eip, reg)
Segment(sip, eip, reg) == [start_ip |-> sip, end_ip |-> eip, region |-> reg]

\* Segment.split: the fewest pieces none of which crosses a bucket boundary,
\* in increasing order, each with the region of the segment
split(sg) ==
    LET sb == sg.start_ip \div Bucket_Size
        eb == sg.end_ip \div Bucket_Size
    IN  [k \in 1..(eb - sb + 1) |->
            Segment(IF k = 1 THEN sg.start_ip ELSE (sb + k - 1) * Bucket_Size,
                    IF k = eb - sb + 1 THEN sg.end_ip
                    ELSE (sb + k) * Bucket_Size - 1,
                    sg.region)]

\* idx.SegmentIndexBlock(sip, eip, dl, dp)
SegmentIndexBlock(sip, eip, dl, dp) ==
    [start_ip |-> sip, end_ip |-> eip, data_len |-> dl, data_ptr |-> dp]

\* SegmentIndexBlock.encode: start_ip:u32, end_ip:u32, data_length:u16, data_ptr:u32
EncodeSegmentIndexBlock(b) ==
    Raw(LE(b.start_ip, 4) \o LE(b.end_ip, 4) \o LE(b.data_len, 2) \o LE(b.data_ptr, 4))

\* idx.VectorIndexBlock()
VectorIndexBlock == [first_ptr |-> 0, last_ptr |-> 0]

\* VectorIndexBlock.encode: first_ptr:u32, last_ptr:u32
EncodeVectorIndexBlock(v) == Raw(LE(v.first_ptr, 4) \o LE(v.last_ptr, 4))

(* ------------------------------------------------------------------ *)
(* The source files the model builds from                              *)
(* ------------------------------------------------------------------ *)
\* the decimal digits of n
RECURSIVE Dec(_)
Dec(n) == IF n < 10 THEN <<48 + n>> ELSE Dec(n \div 10) \o <<48 + (n % 10)>>

\* the literal a.b.c.d
Dotted(a, b, c, d) ==
    Str(Dec(a) \o <<46>> \o Dec(b) \o <<46>> \o Dec(c) \o <<46>> \o Dec(d))

\* the line s|e|r
Line(s, e, r) == Cat(Cat(Cat(Cat(s, Chr(124)), e), Chr(124)), r)

RegionA == Str(<<65>>)
RegionB == Str(<<66>>)
\* a region with a three-byte character and a '|' in it
RegionC == Str(<<20013, 124, 66>>)

\* [0, 99], the first line of a file
LineFirst == Line(Dotted(0, 0, 0, 0), Dotted(0, 0, 0, 99), RegionA)

SmallLines ==
    { LineFirst,
      \* [100, 65791]: follows LineFirst with its region, crosses from bucket
      \* (0,0) into (0,1)
      Line(Dotted(0, 0, 0, 100), Dotted(0, 1, 0, 255), RegionA),
      \* [65792, 65792]: one address, in the bucket the line above ends in
      Line(Dotted(0, 1, 1, 0), Dotted(0, 1, 1, 0), RegionC),
      \* [101, 200]: leaves a gap at 100 after LineFirst
      Line(Dotted(0, 0, 0, 101), Dotted(0, 0, 0, 200), RegionB),
      \* [16776960, 16842752]: buckets (0,255), (1,0), (1,1)
      Line(Dotted(0, 255, 255, 0), Dotted(1, 1, 0, 0), RegionA),
      \* two fields only
      Cat(Cat(Dotted(0, 0, 0, 100), Chr(124)), Dotted(0, 0, 0, 255)),
      \* start > end
      Line(Dotted(0, 0, 0, 100), Dotted(0, 0, 0, 50), RegionB),
      \* empty region
      Line(Dotted(0, 0, 0, 100), Dotted(0, 0, 0, 255), <<>>),
      \* a byte of the address out of range
      Line(Dotted(0, 0, 0, 256), Dotted(0, 0, 1, 0), RegionB) }

\* regions at the limit of 65535 encoded bytes: 65535 and 65536 one-byte
\* characters, 21845 and 21846 three-byte characters
BigRegions ==
    { Repeat(65, Max_Region_Bytes), Repeat(65, Max_Region_Bytes + 1),
      Repeat(20013, Max_Region_Bytes \div 3), Repeat(20013, Max_Region_Bytes \div 3 + 1) }

\* [100, 200] with a region at the limit, after LineFirst
BigFiles ==
    { <<LineFirst, Line(Dotted(0, 0, 0, 100), Dotted(0, 0, 0, 200), r)>> :
        r \in BigRegions }

SmallFiles == UNION {[1..n -> SmallLines] : n \in 0..MaxLines}

\* the text of a file: every line ended by \n
RECURSIVE JoinLines(_)
JoinLines(ls) ==
    IF ls = <<>> THEN <<>>
    ELSE Cat(Cat(Head(ls), Chr(10)), JoinLines(Tail(ls)))

Sources == {JoinLines(f) : f \in SmallFiles \cup BigFiles}

\* the policy argument: 1:vector, 2:b-tree
Policies == {Vector_Index_Policy, BTree_Index_Policy}

(* ------------------------------------------------------------------ *)
(* State                                                               *)
(* ------------------------------------------------------------------ *)
VARIABLES
    pc,               \* where the run is: the next call or loop iteration
    run,              \* 1: the first build of the process, 2: the second
    src,              \* the text of the source file
    policy,           \* the policy argument of new_maker
    clock,            \* int(time.time())
    src_handle,       \* "none", "open" or "closed"
    dst_handle,       \* "none", "open" or "closed"
    dst,              \* the destination file: cursor and writes
    segments,         \* Maker.segments
    region_pool,      \* Maker.region_pool: region -> offset
    vector_index,     \* Maker.vector_index, the assigned cells
    load_ret,         \* what load_segments returned: "unset", "[]", "None"
    i,                \* start(): index of `s` in the data loop
    j,                \* start(): index of `sg` in the index loop
    k,                \* start(): index of `s` in seg_list
    counter,          \* start(): counter
    start_index_ptr,  \* start(): start_index_ptr
    end_index_ptr,    \* start(): end_index_ptr
    first_out,        \* the destination file the first build left
    main_pc,          \* benchmark, main thread: "start", "join", "print", "done"
    main_n,           \* benchmark, main thread: index of `t` in its loop
    thread_pc,        \* benchmark, each thread: "created", "acquire",
                      \* "search", "print", "finally", "done"
    raised,           \* benchmark, each thread: an exception left run()
    locked            \* benchmark: the state of `lock`

vars == <<pc, run, src, policy, clock, src_handle, dst_handle, dst, segments,
          region_pool, vector_index, load_ret, i, j, k, counter,
          start_index_ptr, end_index_ptr, first_out,
          main_pc, main_n, thread_pc, raised, locked>>

bench == <<main_pc, main_n, thread_pc, raised, locked>>
maker == <<segments, region_pool, vector_index>>
locals == <<i, j, k, counter, start_index_ptr, end_index_ptr>>
handles == <<src_handle, dst_handle>>
world == <<run, src, policy, clock, first_out, bench>>

Init ==
    /\ pc = "new_maker"
    /\ run = 1
    /\ src \in Sources
    /\ policy \in Policies
    /\ clock = 1700000000
    /\ src_handle = "none"
    /\ dst_handle = "none"
    /\ dst = EmptyFile
    /\ segments = <<>>
    /\ region_pool = <<>>
    /\ vector_index = <<>>
    /\ load_ret = "unset"
    /\ i = 1
    /\ j = 1
    /\ k = 1
    /\ counter = 0
    /\ start_index_ptr = -1
    /\ end_index_ptr = -1
    /\ first_out = EmptyFile
    /\ main_pc = "start"
    /\ main_n = 1
    /\ thread_pc = [t \in Threads |-> "created"]
    /\ raised = [t \in Threads |-> FALSE]
    /\ locked = FALSE

(* ------------------------------------------------------------------ *)
(* new_maker                                                           *)
(* ------------------------------------------------------------------ *)
\* sg=[], rp={} and the grid of VectorIndexBlock() handed to Maker(...)
New_Segments == <<>>

\* (faulty variant) the pool is a table of the module, kept from one Maker to the next
Stale_Region_Pool == region_pool

New_Region_Pool == <<>>
New_Vector_Index == <<>>

\* open(srcfile), open(dstfile, "wb") and Maker(...); an IOError of either
\* open is logged and the process exits
new_maker ==
    /\ pc = "new_maker"
    /\ \E outcome \in {"ok", "src_fails", "dst_fails"} :
         /\ src_handle' = IF outcome = "src_fails" THEN "none" ELSE "open"
         /\ dst_handle' = IF outcome = "ok" THEN "open" ELSE "none"
         /\ pc' = IF outcome = "ok" THEN "init_db_header" ELSE "exited"
         /\ IF outcome = "ok"
            THEN /\ dst' = EmptyFile
                 /\ segments' = New_Segments
                 /\ region_pool' = New_Region_Pool
                 /\ vector_index' = New_Vector_Index
                 /\ load_ret' = "unset"
            ELSE UNCHANGED <<dst, maker, load_ret>>
    /\ UNCHANGED <<world, locals>>

(* ------------------------------------------------------------------ *)
(* Maker.init: init_db_header, then load_segments                      *)
(* ------------------------------------------------------------------ *)
\* the 256 bytes of the header, the two index pointers zero
Header(ip, tm) ==
    Raw(LE(Version_No, 2) \o LE(ip, 2) \o LE(tm, 4) \o LE(0, 4) \o LE(0, 4))
        \o Zeros(256 - 16)

init_db_header ==
    /\ pc = "init_db_header"
    /\ dst' = Write(dst, Header(policy, clock), "header")
    /\ pc' = "load_segments"
    /\ UNCHANGED <<world, handles, maker, load_ret, locals>>

\* (faulty variant) the line cut at every '|'
LineFields_All(line) == Split(line, 124, -1)

\* line.split("|", maxsplit=2)
LineFields(line) == Split(line, 124, 2)

\* the loop of load_segments over the lines left, `last` being <<>> for None
\* or <<the last segment appended>>; gives self.segments and the value returned
RECURSIVE LoadLines(_, _, _)
LoadLines(lines, segs, last) ==
    IF lines = <<>> THEN [segments |-> segs, ret |-> "None"]
    ELSE LET ps == LineFields(Head(lines))
             failed == [segments |-> segs, ret |-> "[]"]
         IN  IF Len(ps) # 3 THEN failed
             ELSE IF check_ip(ps[1]) = -1 THEN failed
             ELSE IF check_ip(ps[2]) = -1 THEN failed
             ELSE IF check_ip(ps[1]) > check_ip(ps[2]) THEN failed
             ELSE IF StrLen(ps[3]) < 1 THEN failed
             ELSE LET segment == Segment(check_ip(ps[1]), check_ip(ps[2]), ps[3])
                  IN  IF last # <<>> /\ last[1].end_ip + 1 # segment.start_ip
                      THEN failed
                      ELSE LoadLines(Tail(lines), Append(segs, segment), <<segment>>)

load_segments ==
    /\ pc = "load_segments"
    /\ LET r == LoadLines(splitlines(src), segments, <<>>)
       IN  /\ segments' = r.segments
           /\ load_ret' = r.ret
    /\ pc' = "start"
    /\ UNCHANGED <<world, handles, dst, region_pool, vector_index, locals>>

(* ------------------------------------------------------------------ *)
(* Maker.set_vector_index                                              *)
(* ------------------------------------------------------------------ *)
\* vector_index[row][col]
Cell(vi, row, col) ==
    IF <<row, col>> \in DOMAIN vi THEN vi[<<row, col>>] ELSE VectorIndexBlock

\* (faulty variant) first_ptr assigned on every call
Refreshed_Always(vi_block, ptr) ==
    [first_ptr |-> ptr, last_ptr |-> ptr + Segment_Index_Block_Size]

\* (faulty variant) last_ptr left at the start of the block
Refreshed_LastAtBlock(vi_block, ptr) ==
    [first_ptr |-> IF vi_block.first_ptr = 0 THEN ptr ELSE vi_block.first_ptr,
     last_ptr |-> ptr]

\* the block of the cell after set_vector_index(ip, ptr)
Refreshed(vi_block, ptr) ==
    [first_ptr |-> IF vi_block.first_ptr = 0 THEN ptr ELSE vi_block.first_ptr,
     last_ptr |-> ptr + Segment_Index_Block_Size]

Row(ip) == (ip \div 16777216) % 256
Col(ip) == (ip \div 65536) % 256

set_vector_index(vi, ip, ptr) ==
    [c \in DOMAIN vi \cup {<<Row(ip), Col(ip)>>} |->
        IF c = <<Row(ip), Col(ip)>>
        THEN Refreshed(Cell(vi, Row(ip), Col(ip)), ptr)
        ELSE vi[c]]

(* ------------------------------------------------------------------ *)
(* Maker.start                                                         *)
(* ------------------------------------------------------------------ *)
\* (faulty variant) the payload started right after the header, no room
\* left for the vector index
start_unreserved ==
    /\ pc = "start"
    /\ IF Len(segments) < 1
       THEN /\ pc' = "end"
            /\ dst' = dst
       ELSE /\ pc' = "data"
            /\ dst' = Seek(dst, Header_Info_Length)
    /\ i' = 1
    /\ UNCHANGED <<world, handles, maker, load_ret, j, k, counter,
                   start_index_ptr, end_index_ptr>>

\* (faulty variant) no return on an empty list: both loops have nothing to
\* go through and the back-fill steps follow
start_unguarded ==
    /\ pc = "start"
    /\ pc' = IF Len(segments) < 1 THEN "flush" ELSE "data"
    /\ dst' = Seek(dst, Header_Info_Length + Vector_Index_Length)
    /\ i' = 1
    /\ UNCHANGED <<world, handles, maker, load_ret, j, k, counter,
                   start_index_ptr, end_index_ptr>>

\* len(self.segments) < 1: return; else seek to the payload
start ==
    /\ pc = "start"
    /\ IF Len(segments) < 1
       THEN /\ pc' = "end"
            /\ dst' = dst
       ELSE /\ pc' = "data"
            /\ dst' = Seek(dst, Header_Info_Length + Vector_Index_Length)
    /\ i' = 1
    /\ UNCHANGED <<world, handles, maker, load_ret, j, k, counter,
                   start_index_ptr, end_index_ptr>>

\* (faulty variant) no region is ever found in the pool by the data loop
Cached_Never(pool, region) == FALSE

\* s.region in self.region_pool
Cached(pool, region) == region \in DOMAIN pool

\* (faulty variant) the limit applied to the characters of the region
TooLong_Chars(region) == StrLen(region) > Max_Region_Bytes

\* (faulty variant) no limit on the length of a region
TooLong_Never(region) == FALSE

\* len(region) > 0xFFFF
TooLong(region) == BytesLen(Utf8(region)) > Max_Region_Bytes

\* (faulty variant) the cursor after the write recorded instead
PoolPut_End(pool, region, pos) ==
    [r \in DOMAIN pool \cup {region} |->
        IF r = region THEN pos + BytesLen(Utf8(region)) ELSE pool[r]]

\* self.region_pool[s.region] = pos
PoolPut(pool, region, pos) ==
    [r \in DOMAIN pool \cup {region} |-> IF r = region THEN pos ELSE pool[r]]

\* one iteration of `for s in self.segments` of the data loop; after the
\* last one, the locals of the index loop are set (counter, start_index_ptr,
\* end_index_ptr = 0, -1, -1)
write_region ==
    /\ pc = "data"
    /\ LET s == segments[i]
       IN  IF Cached(region_pool, s.region)
           THEN /\ pc' = IF i = Len(segments) THEN "index" ELSE "data"
                /\ UNCHANGED <<dst, region_pool>>
           ELSE IF TooLong(s.region)
           THEN /\ pc' = "end"
                /\ UNCHANGED <<dst, region_pool>>
           ELSE /\ dst' = Write(dst, Utf8(s.region), "region")
                /\ region_pool' = PoolPut(region_pool, s.region, Tell(dst))
                /\ pc' = IF i = Len(segments) THEN "index" ELSE "data"
    /\ i' = i + 1
    /\ IF pc' = "index"
       THEN /\ j' = 1
            /\ k' = 1
            /\ counter' = 0
            /\ start_index_ptr' = -1
            /\ end_index_ptr' = -1
       ELSE UNCHANGED <<j, k, counter, start_index_ptr, end_index_ptr>>
    /\ UNCHANGED <<world, handles, segments, vector_index, load_ret>>

\* (faulty variant) the end of the whole segment on every piece
IndexBlockOf_UnsplitEnd(sg, s, pool) ==
    SegmentIndexBlock(s.start_ip, sg.end_ip, BytesLen(Utf8(sg.region)), pool[sg.region])

\* (faulty variant) the region's length in characters as data_len
IndexBlockOf_CharLen(sg, s, pool) ==
    SegmentIndexBlock(s.start_ip, s.end_ip, StrLen(sg.region), pool[sg.region])

\* the index block of piece s of segment sg
IndexBlockOf(sg, s, pool) ==
    SegmentIndexBlock(s.start_ip, s.end_ip, BytesLen(Utf8(sg.region)), pool[sg.region])

\* one iteration of `for s in seg_list` of the index loop, with the checks
\* made on entering `for sg in self.segments` when s is the first piece
write_index ==
    /\ pc = "index"
    /\ LET sg == segments[j]
           seg_list == split(sg)
           pos == Tell(dst)
           last == k = Len(seg_list)
       IN  IF k = 1 /\ sg.region \notin DOMAIN region_pool
           THEN /\ pc' = "end"
                /\ UNCHANGED <<dst, vector_index, locals>>
           ELSE IF k = 1 /\ BytesLen(Utf8(sg.region)) < 1
           THEN /\ pc' = "end"
                /\ UNCHANGED <<dst, vector_index, locals>>
           ELSE /\ dst' = Write(dst,
                            EncodeSegmentIndexBlock(
                                IndexBlockOf(sg, seg_list[k], region_pool)),
                            "index")
                /\ vector_index' =
                        set_vector_index(vector_index, seg_list[k].start_ip, pos)
                /\ counter' = counter + 1
                /\ start_index_ptr' =
                        IF start_index_ptr = -1 THEN pos ELSE start_index_ptr
                /\ end_index_ptr' = pos
                /\ k' = IF last THEN 1 ELSE k + 1
                /\ j' = IF last THEN j + 1 ELSE j
                /\ pc' = IF last /\ j = Len(segments) THEN "flush" ELSE "index"
                /\ i' = i
    /\ UNCHANGED <<world, handles, segments, region_pool, load_ret>>

\* the bytes of the cells from the n-th on (n = row * 256 + col), row by row
RECURSIVE VectorIndexBytes(_, _)
VectorIndexBytes(vi, n) ==
    LET cells == {c \in DOMAIN vi : c[1] * Vector_Index_Cols + c[2] >= n}
        next == Min({c[1] * Vector_Index_Cols + c[2] : c \in cells})
    IN  IF cells = {}
        THEN Zeros((Vector_Index_Rows * Vector_Index_Cols - n) * Vector_Index_Size)
        ELSE Zeros((next - n) * Vector_Index_Size)
             \o EncodeVectorIndexBlock(
                    Cell(vi, next \div Vector_Index_Cols, next % Vector_Index_Cols))
             \o VectorIndexBytes(vi, next + 1)

\* (faulty variant) the vector index is never written
flush_skipped ==
    /\ pc = "flush"
    /\ pc' = "patch"
    /\ UNCHANGED <<world, handles, dst, maker, load_ret, locals>>

\* (faulty variant) the vector index written where the cursor stands
flush_unseeked ==
    /\ pc = "flush"
    /\ dst' = Write(dst, VectorIndexBytes(vector_index, 0), "vector")
    /\ pc' = "patch"
    /\ UNCHANGED <<world, handles, maker, load_ret, locals>>

\* 3. seek to the vector index and write every cell: the writes of the two
\* loops follow one another, so they are one write of the bytes of all cells
flush_vector_index ==
    /\ pc = "flush"
    /\ dst' = Write(Seek(dst, Header_Info_Length),
                    VectorIndexBytes(vector_index, 0), "vector")
    /\ pc' = "patch"
    /\ UNCHANGED <<world, handles, maker, load_ret, locals>>

\* (faulty variant) the end pointer past the last block
PackPtrs_PastEnd(first, last) ==
    Raw(LE(first, 4) \o LE(last + Segment_Index_Block_Size, 4))

\* struct.pack("<II", start_index_ptr, end_index_ptr)
PackPtrs(first, last) == Raw(LE(first, 4) \o LE(last, 4))

\* 4. the two pointers written at offset 8
patch_header ==
    /\ pc = "patch"
    /\ dst' = Write(Seek(dst, 8), PackPtrs(start_index_ptr, end_index_ptr), "patch")
    /\ pc' = "end"
    /\ UNCHANGED <<world, handles, maker, load_ret, locals>>

(* ------------------------------------------------------------------ *)
(* Maker.end                                                           *)
(* ------------------------------------------------------------------ *)
\* src_handle.close() then dst_handle.close(); the IOError of either is
\* logged and the process exits. Whether a close that raised released its
\* handle is up to the I/O layer.
end ==
    /\ pc = "end"
    /\ \E outcome \in {"ok", "src_raises", "dst_raises"} :
       \E released \in BOOLEAN :
         /\ outcome = "ok" => released
         /\ src_handle' = IF outcome = "src_raises" /\ ~released
                          THEN "open" ELSE "closed"
         /\ dst_handle' = IF outcome = "src_raises" THEN "open"
                          ELSE IF outcome = "dst_raises" /\ ~released THEN "open"
                          ELSE "closed"
         /\ pc' = IF outcome = "ok" THEN "done" ELSE "exited"
    /\ UNCHANGED <<world, dst, maker, load_ret, locals>>

(* ------------------------------------------------------------------ *)
(* The process builds again from the same source                       *)
(* ------------------------------------------------------------------ *)
second_build ==
    /\ pc = "done"
    /\ run = 1
    /\ run' = 2
    /\ first_out' = dst
    /\ clock' \in {clock, clock + 1}
    /\ pc' = "new_maker"
    /\ UNCHANGED <<src, policy, handles, dst, maker, load_ret, locals, bench>>

Next ==
    \/ new_maker
    \/ init_db_header
    \/ load_segments
    \/ start
    \/ write_region
    \/ write_index
    \/ flush_vector_index
    \/ patch_header
    \/ end

\* one build
Spec == Init /\ [][Next]_vars

\* two builds, one after the other
NextTwo == Next \/ second_build

SpecTwo == Init /\ [][NextTwo]_vars

(* ------------------------------------------------------------------ *)
(* The benchmark of the v1.0 python binding (benchmark.py): the main   *)
(* thread starts every BenchmarkThread and joins them; each thread     *)
(* searches once under the one lock.                                   *)
(* ------------------------------------------------------------------ *)
build == <<pc, run, src, policy, clock, src_handle, dst_handle, dst, segments,
           region_pool, vector_index, load_ret, i, j, k, counter,
           start_index_ptr, end_index_ptr, first_out>>

\* searcher, lock and the threads are made, no build under way
InitBench ==
    /\ Init
    /\ src = <<>>
    /\ policy = Vector_Index_Policy

\* for t in threads: t.start()
start_thread ==
    /\ main_pc = "start"
    /\ thread_pc' = [thread_pc EXCEPT ![main_n] = "acquire"]
    /\ IF main_n = MaxThreads
       THEN /\ main_pc' = "join"
            /\ main_n' = 1
       ELSE /\ main_pc' = "start"
            /\ main_n' = main_n + 1
    /\ UNCHANGED <<build, raised, locked>>

\* for t in threads: t.join(): returns once run() of t is over
join_thread ==
    /\ main_pc = "join"
    /\ thread_pc[main_n] = "done"
    /\ IF main_n = MaxThreads
       THEN /\ main_pc' = "print"
            /\ main_n' = main_n
       ELSE /\ main_pc' = "join"
            /\ main_n' = main_n + 1
    /\ UNCHANGED <<build, thread_pc, raised, locked>>

\* print("Benchmark done: ...")
benchmark_done ==
    /\ main_pc = "print"
    /\ main_pc' = "done"
    /\ UNCHANGED <<build, main_n, thread_pc, raised, locked>>

\* (faulty variant) acquire that does not wait for the lock to be free
acquire_unguarded(t) ==
    /\ thread_pc[t] = "acquire"
    /\ locked' = TRUE
    /\ thread_pc' = [thread_pc EXCEPT ![t] = "search"]
    /\ UNCHANGED <<build, main_pc, main_n, raised>>

\* self.__lock.acquire(): blocks while the lock is held
acquire(t) ==
    /\ thread_pc[t] = "acquire"
    /\ ~locked
    /\ locked' = TRUE
    /\ thread_pc' = [thread_pc EXCEPT ![t] = "search"]
    /\ UNCHANGED <<build, main_pc, main_n, raised>>

\* (faulty variant) no try/finally: an exception of the search leaves run()
\* at once
memorySearch_unprotected(t) ==
    /\ thread_pc[t] = "search"
    /\ \E outcome \in {"returns", "raises"} :
         /\ thread_pc' = [thread_pc EXCEPT ![t] =
                            IF outcome = "returns" THEN "print" ELSE "done"]
         /\ raised' = [raised EXCEPT ![t] = outcome = "raises"]
    /\ UNCHANGED <<build, main_pc, main_n, locked>>

\* data = self.__searcher.memorySearch(...): returns or raises; an exception
\* goes to the finally clause
memorySearch(t) ==
    /\ thread_pc[t] = "search"
    /\ \E outcome \in {"returns", "raises"} :
         /\ thread_pc' = [thread_pc EXCEPT ![t] =
                            IF outcome = "returns" THEN "print" ELSE "finally"]
         /\ raised' = [raised EXCEPT ![t] = outcome = "raises"]
    /\ UNCHANGED <<build, main_pc, main_n, locked>>

\* print("%s|%s in %5f millseconds" % (...)): returns or raises; either way
\* the finally clause is next
report(t) ==
    /\ thread_pc[t] = "print"
    /\ \E outcome \in {"returns", "raises"} :
         raised' = [raised EXCEPT ![t] = outcome = "raises"]
    /\ thread_pc' = [thread_pc EXCEPT ![t] = "finally"]
    /\ UNCHANGED <<build, main_pc, main_n, locked>>

\* finally: self.__lock.release(); run() is over, with the exception if any
release(t) ==
    /\ thread_pc[t] = "finally"
    /\ locked' = FALSE
    /\ thread_pc' = [thread_pc EXCEPT ![t] = "done"]
    /\ UNCHANGED <<build, main_pc, main_n, raised>>

\* a step of thread t
BenchmarkThread(t) ==
    \/ acquire(t)
    \/ memorySearch(t)
    \/ report(t)
    \/ release(t)

\* a step of the main thread
Main ==
    \/ start_thread
    \/ join_thread
    \/ benchmark_done

NextBench ==
    \/ Main
    \/ \E t \in Threads : BenchmarkThread(t)

SpecBench == InitBench /\ [][NextBench]_vars

\* every thread that can take a step is scheduled in the end
SpecBenchFair ==
    /\ SpecBench
    /\ WF_vars(Main)
    /\ \A t \in Threads : WF_vars(BenchmarkThread(t))

\* thread t is between lock.acquire() and lock.release()
Holding(t) == thread_pc[t] \in {"search", "print", "finally"}

(* ------------------------------------------------------------------ *)
(* What a reader of the destination file sees                          *)
(* ------------------------------------------------------------------ *)
\* the header was patched: start() ran to its end
Patched == WritesOf(dst, "patch") # <<>>

\* start() has returned (or was never reached)
Returned == pc \in {"end", "done", "exited"}

\* the segment index block stored at offset o
BlockAt(f, o) ==
    SegmentIndexBlock(FileUInt(f, o, 4), FileUInt(f, o + 4, 4),
                      FileUInt(f, o + 8, 2), FileUInt(f, o + 10, 4))

\* the segment index blocks of the file in file order: from the lowest
\* offset an index block was written at to the end of the file
ScanBlocks(f) ==
    LET offs == {w.off : w \in {f.log[n] : n \in {m \in DOMAIN f.log :
                                                f.log[m].site = "index"}}}
    IN  IF offs = {} THEN <<>>
        ELSE [m \in 1..((FileSize(f) - Min(offs)) \div Segment_Index_Block_Size) |->
                BlockAt(f, Min(offs) + Segment_Index_Block_Size * (m - 1))]

\* the vector index cell <<row, col>> as stored in the file
CellAt(f, c) ==
    LET o == Header_Info_Length
             + (c[1] * Vector_Index_Cols + c[2]) * Vector_Index_Size
    IN  [first_ptr |-> FileUInt(f, o, 4), last_ptr |-> FileUInt(f, o + 4, 4)]

\* the lines of the source and the fields of a line, read again
SrcLines == splitlines(src)
LineStart(l) == check_ip(Split(l, 124, 2)[1])
LineEnd(l) == check_ip(Split(l, 124, 2)[2])

(* ------------------------------------------------------------------ *)
(* Claims                                                              *)
(* ------------------------------------------------------------------ *)

\* C1: when a line fails validation in load_segments, the Maker's segment
\* list is empty after the load, never the prefix of lines that validated.
C1_LoadAllOrNothing == load_ret = "[]" => segments = <<>>

\* C2: driven as init() then start(), a validation failure during loading
\* aborts the build: start() writes no payload, no index block, no vector
\* index and no header patch, and the header index pointers stay 0.
C2_FailedLoadWritesNothing ==
    load_ret = "[]" =>
        /\ \A n \in DOMAIN dst.log : dst.log[n].site = "header"
        /\ FileUInt(dst, 8, 4) = 0
        /\ FileUInt(dst, 12, 4) = 0

\* C3: for a valid input, the index blocks scanned in file order tile the
\* input range: the first starts at the first input start_ip, each next one
\* starts at the end of the previous plus one, the last ends at the last
\* input end_ip.
C3_Coverage ==
    (Patched /\ load_ret = "None") =>
        LET blocks == ScanBlocks(dst)
        IN  /\ blocks # <<>>
            /\ blocks[1].start_ip = LineStart(SrcLines[1])
            /\ blocks[Len(blocks)].end_ip = LineEnd(SrcLines[Len(SrcLines)])
            /\ \A m \in DOMAIN blocks : blocks[m].start_ip <= blocks[m].end_ip
            /\ \A m \in 2..Len(blocks) :
                    blocks[m].start_ip = blocks[m - 1].end_ip + 1

\* C3 witness: a built valid input of two segments, one of them split
C3_Witness ==
    /\ Patched
    /\ load_ret = "None"
    /\ Len(segments) = 2
    /\ Len(ScanBlocks(dst)) >= 3

\* C4: a region string carried by several segments is written to the
\* payload once, and every index block of those segments carries the offset
\* of that one copy as its data_ptr.
C4_Dedup ==
    LET copies == WritesOf(dst, "region")
        blocks == ScanBlocks(dst)
    IN  /\ \A m, n \in DOMAIN copies : copies[m].data = copies[n].data => m = n
        /\ Patched =>
             \A a \in DOMAIN segments :
                /\ \E n \in DOMAIN copies : copies[n].data = Utf8(segments[a].region)
                /\ \A b \in DOMAIN blocks :
                     (segments[a].start_ip <= blocks[b].start_ip
                        /\ blocks[b].start_ip <= segments[a].end_ip) =>
                     \E n \in DOMAIN copies :
                        /\ copies[n].data = Utf8(segments[a].region)
                        /\ copies[n].off = blocks[b].data_ptr

\* C4 witness: a built file two segments of which carry the same region
C4_Witness ==
    /\ Patched
    /\ \E a, b \in DOMAIN segments : a # b /\ segments[a].region = segments[b].region

\* the cells the index blocks start in
TouchedCells(blocks) ==
    {<<Row(blocks[b].start_ip), Col(blocks[b].start_ip)>> : b \in DOMAIN blocks}

\* the number of the index blocks that start in cell c
BlocksIn(blocks, c) ==
    Cardinality({b \in DOMAIN blocks :
                    <<Row(blocks[b].start_ip), Col(blocks[b].start_ip)>> = c})

\* cells around the corners of the grid and of its first rows
SomeCells == {0, 1, 2, 254, 255} \X {0, 1, 2, 254, 255}

\* C5: after a build, in every bucket an index block starts in,
\* last_ptr - first_ptr is 14 times the number of blocks that start in it;
\* every other bucket keeps first_ptr = last_ptr = 0. In memory and in the
\* file.
C5_VectorComplete ==
    Patched =>
        LET blocks == ScanBlocks(dst)
        IN  \A c \in TouchedCells(blocks) \cup DOMAIN vector_index \cup SomeCells :
                LET cell == CellAt(dst, c)
                IN  /\ cell = Cell(vector_index, c[1], c[2])
                    /\ IF BlocksIn(blocks, c) > 0
                       THEN cell.last_ptr - cell.first_ptr
                                = Segment_Index_Block_Size * BlocksIn(blocks, c)
                       ELSE cell = VectorIndexBlock

\* C5 witness: a built file with two blocks in one bucket and none in another
C5_Witness ==
    /\ Patched
    /\ \E c \in TouchedCells(ScanBlocks(dst)) : BlocksIn(ScanBlocks(dst), c) >= 2
    /\ \E c \in SomeCells : BlocksIn(ScanBlocks(dst), c) = 0

\* C6: after start(), header bytes 8..11 hold the offset of the first index
\* block written and bytes 12..15 the offset at which the last one begins.
C6_HeaderPatch ==
    Patched =>
        LET blocks == WritesOf(dst, "index")
        IN  /\ blocks # <<>>
            /\ FileUInt(dst, 8, 4) = blocks[1].off
            /\ FileUInt(dst, 12, 4) = blocks[Len(blocks)].off

\* C6 witness: a patched file of several index blocks
C6_Witness == Patched /\ Len(WritesOf(dst, "index")) >= 2

\* the place of a write in the order of the build steps
StepOf(site) ==
    CASE site = "header" -> 1
      [] site = "region" -> 2
      [] site = "index" -> 3
      [] site = "vector" -> 4
      [] site = "patch" -> 5

\* C7: the steps come in the order header, load, payload, index blocks,
\* vector index, header patch: the header is the first write and written
\* once, no payload before the load returned, no index block before the last
\* payload byte, the vector index after the last index block and once, the
\* patch after it and once; a build that reaches its end skipped none.
C7_StepOrder ==
    /\ \A m, n \in DOMAIN dst.log :
            m < n => StepOf(dst.log[m].site) <= StepOf(dst.log[n].site)
    /\ \A site \in {"header", "vector", "patch"} : Len(WritesOf(dst, site)) <= 1
    /\ dst.log # <<>> => dst.log[1].site = "header"
    /\ load_ret = "unset" => \A n \in DOMAIN dst.log : dst.log[n].site = "header"
    /\ pc \in {"data", "index", "flush", "patch"} => load_ret # "unset"
    /\ pc = "index" => i = Len(segments) + 1
    /\ pc = "flush" => j = Len(segments) + 1
    /\ Patched =>
         /\ \A site \in {"header", "vector", "patch"} : Len(WritesOf(dst, site)) = 1
         /\ WritesOf(dst, "region") # <<>>
         /\ Len(WritesOf(dst, "index")) >= Len(segments)

\* C7 witness: a build that ran through every step
C7_Witness == pc = "done" /\ Patched /\ Len(WritesOf(dst, "index")) >= 3

\* the encoded length of the region of segment a
RegionBytes(a) == BytesLen(Utf8(segments[a].region))

\* C8: a region longer than 65535 bytes once encoded stops start() before
\* any index block, vector index or header patch (the pointers stay 0); a
\* region of 65535 encoded bytes or fewer does not. The limit counts bytes.
C8_RegionLimit ==
    (Returned /\ segments # <<>>) =>
        IF \E a \in DOMAIN segments : RegionBytes(a) > Max_Region_Bytes
        THEN /\ \A n \in DOMAIN dst.log : dst.log[n].site \in {"header", "region"}
             /\ FileUInt(dst, 8, 4) = 0
             /\ FileUInt(dst, 12, 4) = 0
        ELSE Patched

\* C8 witness: start() stopped at a region of fewer than 65535 characters
\* and more than 65535 bytes, after the payload of an earlier segment
C8_Witness ==
    /\ pc = "end"
    /\ ~Patched
    /\ WritesOf(dst, "region") # <<>>
    /\ \E a \in DOMAIN segments :
          StrLen(segments[a].region) < Max_Region_Bytes
            /\ RegionBytes(a) > Max_Region_Bytes

\* C9: the second build of a process, by a freshly created Maker on the
\* same input, starts from an empty segment list, pool and vector index,
\* and with the same timestamp makes the same writes as the first: the two
\* files are byte-identical.
C9_Deterministic ==
    /\ (run = 2 /\ pc = "init_db_header") =>
          segments = <<>> /\ region_pool = <<>> /\ vector_index = <<>>
    /\ (run = 2 /\ pc \in {"end", "done"}
            /\ FileUInt(dst, 4, 4) = FileUInt(first_out, 4, 4)) =>
          dst.log = first_out.log

\* C9 witness: two full builds with the same timestamp
C9_Witness ==
    /\ run = 2
    /\ pc = "done"
    /\ Patched
    /\ FileUInt(dst, 4, 4) = FileUInt(first_out, 4, 4)
    /\ Len(segments) = 2

\* C10: on every exit path neither handle is left open: after end(), also
\* when a close raises, and when new_maker fails to open the destination.
C10_HandlesReleased ==
    pc \in {"done", "exited"} => src_handle # "open" /\ dst_handle # "open"

\* the number of characters c in t
RECURSIVE CountChar(_, _)
CountChar(t, c) ==
    IF t = <<>> THEN 0
    ELSE (IF t[1].c = c THEN t[1].n ELSE 0) + CountChar(Tail(t), c)

\* t[:m]
RECURSIVE TakeChars(_, _)
TakeChars(t, m) ==
    IF m = 0 \/ t = <<>> THEN <<>>
    ELSE IF t[1].n >= m THEN <<Run(t[1].c, m)>>
    ELSE <<t[1]>> \o TakeChars(Tail(t), m - t[1].n)

\* C11: load_segments cuts a line at its first two '|' only: the segment of
\* line n has the start and end IP of the first two fields, and its region
\* is the line's text after the second '|', further '|' included, unchanged;
\* a line with fewer than two '|' gives no segment, and a first line with
\* two valid addresses in order and some text after the second '|' gives one.
C11_SplitAtFirstTwoBars ==
    load_ret # "unset" =>
        /\ Len(segments) <= Len(SrcLines)
        /\ \A n \in DOMAIN segments :
             LET line == SrcLines[n]
                 region == segments[n].region
                 head == TakeChars(line, StrLen(line) - StrLen(region))
             IN  /\ StrLen(region) >= 1
                 /\ Cat(head, region) = line
                 /\ CountChar(head, 124) = 2
                 /\ head[Len(head)].c = 124
                 /\ segments[n].start_ip = LineStart(line)
                 /\ segments[n].end_ip = LineEnd(line)
        /\ \A n \in DOMAIN SrcLines :
             CountChar(SrcLines[n], 124) < 2 => Len(segments) < n
        /\ (/\ SrcLines # <<>>
            /\ CountChar(SrcLines[1], 124) >= 2
            /\ LineStart(SrcLines[1]) # -1
            /\ LineEnd(SrcLines[1]) # -1
            /\ LineStart(SrcLines[1]) <= LineEnd(SrcLines[1])
            /\ SrcLines[1][Len(SrcLines[1])].c # 124) => Len(segments) >= 1

\* C11 witness: a loaded segment whose region holds a '|'
C11_Witness ==
    /\ load_ret # "unset"
    /\ \E n \in DOMAIN segments : CountChar(segments[n].region, 124) >= 1

\* the distinct regions of segs in the order of their first use
RECURSIVE FirstUse(_)
FirstUse(segs) ==
    IF segs = <<>> THEN <<>>
    ELSE LET before == FirstUse(SubSeq(segs, 1, Len(segs) - 1))
             region == segs[Len(segs)].region
         IN  IF \E m \in DOMAIN before : before[m] = region
             THEN before ELSE Append(before, region)

\* the length in bytes of the first m writes of ws together
RECURSIVE TotalLen(_, _)
TotalLen(ws, m) ==
    IF m = 0 THEN 0 ELSE BytesLen(ws[m].data) + TotalLen(ws, m - 1)

\* the segments the data loop has gone through
Visited ==
    IF pc = "data" THEN SubSeq(segments, 1, i - 1)
    ELSE IF pc \in {"index", "flush", "patch"} \/ Patched THEN segments
    ELSE <<>>

\* C12: the first unique region is written at 256 + 524288 and each later
\* one at the end of the one before, in the order of first use in the
\* segment list; a region met again is not written, and the pool keeps for
\* each region the offset of its one copy.
C12_PayloadLayout ==
    LET copies == WritesOf(dst, "region")
        order == FirstUse(Visited)
    IN  /\ \A m \in DOMAIN copies :
             copies[m].off = Header_Info_Length + Vector_Index_Length
                             + TotalLen(copies, m - 1)
        /\ Cardinality(DOMAIN region_pool) = Len(copies)
        /\ \A r \in DOMAIN region_pool :
             \E m \in DOMAIN copies :
                /\ copies[m].data = Utf8(r)
                /\ region_pool[r] = copies[m].off
        /\ (pc \in {"data", "index", "flush", "patch"} \/ Patched) =>
             /\ Len(copies) = Len(order)
             /\ \A m \in DOMAIN order : copies[m].data = Utf8(order[m])

\* C12 witness: two unique regions written, the second longer than a byte
C12_Witness ==
    /\ pc = "index"
    /\ Len(WritesOf(dst, "region")) = 2
    /\ region_pool[segments[2].region]
         = Header_Info_Length + Vector_Index_Length + RegionBytes(1)

\* the vector index cell of an address
CellOf(ip) == <<Row(ip), Col(ip)>>

\* C13: the index blocks are one run of 14-byte blocks right after the
\* payload: the first at 256 + 524288 + the length of all unique regions,
\* the k-th (from 0) at start_index_ptr + 14 * k, end_index_ptr at the last
\* one; the offset given to set_vector_index with a block is the offset of
\* that block.
C13_IndexLayout ==
    LET copies == WritesOf(dst, "region")
        made == WritesOf(dst, "index")
        cell(m) == CellOf(BlockAt(dst, made[m].off).start_ip)
    IN  made # <<>> =>
          /\ made[1].off = Header_Info_Length + Vector_Index_Length
                           + TotalLen(copies, Len(copies))
          /\ start_index_ptr = made[1].off
          /\ \A m \in DOMAIN made :
               /\ BytesLen(made[m].data) = Segment_Index_Block_Size
               /\ made[m].off
                    = start_index_ptr + Segment_Index_Block_Size * (m - 1)
          /\ counter = Len(made)
          /\ end_index_ptr
               = start_index_ptr + Segment_Index_Block_Size * (Len(made) - 1)
          /\ \A m \in DOMAIN made :
               /\ cell(m) \in DOMAIN vector_index
               /\ (\A n \in 1..(m - 1) : cell(n) # cell(m)) =>
                     vector_index[cell(m)].first_ptr = made[m].off
               /\ (\A n \in (m + 1)..Len(made) : cell(n) # cell(m)) =>
                     vector_index[cell(m)].last_ptr
                        = made[m].off + Segment_Index_Block_Size

\* C13 witness: three blocks written after a payload of two regions
C13_Witness ==
    /\ Len(WritesOf(dst, "region")) = 2
    /\ Len(WritesOf(dst, "index")) >= 3
    /\ end_index_ptr = start_index_ptr + 2 * Segment_Index_Block_Size

\* ip >> 16
TopTwo(ip) == ip \div Bucket_Size

\* C14: every index block has a start_ip and an end_ip with the same top two
\* bytes; a segment [s, e] gives exactly (e >> 16) - (s >> 16) + 1 blocks;
\* each block of a segment carries the encoded length of that segment's
\* region and the pool's offset of it.
C14_MinimalSplit ==
    Patched =>
        LET blocks == ScanBlocks(dst)
        IN  /\ \A b \in DOMAIN blocks :
                 TopTwo(blocks[b].start_ip) = TopTwo(blocks[b].end_ip)
            /\ \A a \in DOMAIN segments :
                 LET mine == {b \in DOMAIN blocks :
                                /\ segments[a].start_ip <= blocks[b].start_ip
                                /\ blocks[b].start_ip <= segments[a].end_ip}
                 IN  /\ Cardinality(mine)
                          = TopTwo(segments[a].end_ip)
                            - TopTwo(segments[a].start_ip) + 1
                     /\ \A b \in mine :
                          /\ blocks[b].data_len = RegionBytes(a)
                          /\ blocks[b].data_ptr = region_pool[segments[a].region]

\* C14 witness: a built segment that lies over three buckets
C14_Witness ==
    /\ Patched
    /\ \E a \in DOMAIN segments :
            TopTwo(segments[a].end_ip) - TopTwo(segments[a].start_ip) = 2

\* one step as the cells of the vector index see it
VectorStep ==
    LET made == WritesOf(dst', "index")
    IN  /\ \A c \in DOMAIN vector_index :
             /\ c \in DOMAIN vector_index'
             /\ vector_index'[c].first_ptr = vector_index[c].first_ptr
             /\ vector_index'[c].last_ptr >= vector_index[c].last_ptr
        /\ \A c \in DOMAIN vector_index' \ DOMAIN vector_index :
             /\ made # <<>>
             /\ vector_index'[c].first_ptr = made[Len(made)].off
        /\ \A c \in DOMAIN vector_index' :
             /\ vector_index'[c].first_ptr + Segment_Index_Block_Size
                    <= vector_index'[c].last_ptr
             /\ \A m \in DOMAIN made :
                  (/\ vector_index'[c].first_ptr <= made[m].off
                   /\ made[m].off < vector_index'[c].last_ptr)
                  <=> CellOf(BlockAt(dst', made[m].off).start_ip) = c

\* C15: while the index is written, the first_ptr of a cell is set by the
\* first set_vector_index call that hits the cell and never changes after;
\* last_ptr never decreases; after every call each hit cell has
\* first_ptr + 14 <= last_ptr and the blocks written from first_ptr up to
\* last_ptr are exactly the blocks of that cell.
C15_VectorMonotone == [][VectorStep]_vars

\* C15 witness: a cell hit by two calls
C15_Witness ==
    /\ pc = "index"
    /\ \E c \in DOMAIN vector_index :
         vector_index[c].last_ptr
            = vector_index[c].first_ptr + 2 * Segment_Index_Block_Size

\* the offsets within b a reader is made to compare: all of a short b, the
\* first, middle and last of a long one
Sampled(b) ==
    IF BytesLen(b) <= 16 THEN 0..(BytesLen(b) - 1)
    ELSE {0, BytesLen(b) \div 2, BytesLen(b) - 1}

\* the file holds the bytes b at offset o: b was written there and no later
\* write touched them
FileHolds(f, o, b) ==
    /\ \E n \in DOMAIN f.log :
         /\ f.log[n].off = o
         /\ f.log[n].data = b
         /\ \A m \in (n + 1)..Len(f.log) :
              WriteEnd(f.log[m]) <= o \/ f.log[m].off >= o + BytesLen(b)
    /\ \A q \in Sampled(b) : FileByte(f, o + q) = ByteOf(b, q)

\* C16: in a built file every index block has 1 <= data_len <= 65535, a
\* data_ptr at or after 256 + 524288 and data_ptr + data_len at or before the
\* first index block, and the data_len bytes at data_ptr are the UTF-8
\* encoding of the region of the segment the block was split from.
C16_BlocksPointAtPayload ==
    Patched =>
        LET blocks == ScanBlocks(dst)
            first == FileUInt(dst, 8, 4)
        IN  \A b \in DOMAIN blocks :
              /\ 1 <= blocks[b].data_len
              /\ blocks[b].data_len <= Max_Region_Bytes
              /\ blocks[b].data_ptr >= Header_Info_Length + Vector_Index_Length
              /\ blocks[b].data_ptr + blocks[b].data_len <= first
              /\ \A a \in DOMAIN segments :
                   (/\ segments[a].start_ip <= blocks[b].start_ip
                    /\ blocks[b].start_ip <= segments[a].end_ip) =>
                   /\ blocks[b].data_len = RegionBytes(a)
                   /\ FileHolds(dst, blocks[b].data_ptr, Utf8(segments[a].region))
              /\ \E a \in DOMAIN segments :
                   /\ segments[a].start_ip <= blocks[b].start_ip
                   /\ blocks[b].start_ip <= segments[a].end_ip

\* C16 witness: a built file with a block whose region is of the greatest
\* length allowed, after a block of another region
C16_Witness ==
    /\ Patched
    /\ \E b \in DOMAIN ScanBlocks(dst) :
         /\ ScanBlocks(dst)[b].data_len = Max_Region_Bytes
         /\ ScanBlocks(dst)[b].data_ptr > Header_Info_Length + Vector_Index_Length

\* offsets of f a reader compares across a step: the header's first bytes
\* and last byte, and the first and last byte of every write made
Marks(f) ==
    (0..16) \cup {Header_Info_Length - 1}
    \cup UNION {{f.log[n].off, WriteEnd(f.log[n]) - 1} : n \in DOMAIN f.log}

\* from f to g exactly one write was made, of the bytes lo .. hi - 1, and
\* every other byte and the size of the file are as before
OnlyWrote(f, g, lo, hi) ==
    /\ Len(g.log) = Len(f.log) + 1
    /\ SubSeq(g.log, 1, Len(f.log)) = f.log
    /\ g.log[Len(g.log)].off = lo
    /\ WriteEnd(g.log[Len(g.log)]) = hi
    /\ FileSize(g) = FileSize(f)
    /\ \A o \in Marks(f) \ (lo..(hi - 1)) : FileByte(g, o) = FileByte(f, o)

\* the steps that fill in the vector index and the header's pointers
BackfillStep ==
    /\ pc = "flush" =>
         OnlyWrote(dst, dst', Header_Info_Length,
                   Header_Info_Length + Vector_Index_Length)
    /\ pc = "patch" =>
         /\ OnlyWrote(dst, dst', 8, 16)
         /\ FileUInt(dst', 0, 2) = Version_No
         /\ FileUInt(dst', 2, 2) = policy
         /\ FileUInt(dst', 4, 4) = clock
         /\ \A o \in 16..(Header_Info_Length - 1) :
              FileByte(dst', o) = 0

\* C17: writing the vector index changes exactly the bytes 256 ..
\* 256 + 524288 - 1 and leaves the header, the payload and the index blocks
\* as they were; patching the header changes only the bytes 8 .. 15 and
\* leaves the version, policy and timestamp (bytes 0 .. 7), the zero bytes
\* 16 .. 255 and all that follows the header as they were.
C17_BackfillFrame == [][BackfillStep]_vars

\* C17 witness: both steps done on a file of two index blocks or more
C17_Witness ==
    /\ Patched
    /\ WritesOf(dst, "vector") # <<>>
    /\ FileUInt(dst, 12, 4) > FileUInt(dst, 8, 4)
    /\ FileByte(dst, 16) = 0

\* C18: with an empty segment list start() returns having written nothing:
\* the destination holds the 256-byte header of init_db_header alone, both
\* index pointers in it 0, and the region pool and the vector index are as
\* the constructor left them.
C18_EmptyListWritesNothing ==
    (Returned /\ load_ret # "unset" /\ segments = <<>>) =>
        /\ Len(dst.log) = 1
        /\ dst.log[1].site = "header"
        /\ FileSize(dst) = Header_Info_Length
        /\ FileUInt(dst, 8, 4) = 0
        /\ FileUInt(dst, 12, 4) = 0
        /\ FileUInt(dst, 0, 2) = Version_No
        /\ region_pool = New_Region_Pool
        /\ vector_index = New_Vector_Index

\* C18 witness: start() has returned on an empty source file
C18_Witness ==
    /\ Returned
    /\ load_ret = "None"
    /\ src = <<>>
    /\ segments = <<>>
    /\ FileSize(dst) = Header_Info_Length

\* C19: in the benchmark at most one BenchmarkThread is between the acquire
\* and the release of the lock, in every interleaving of the threads.
C19_OneSearcherAtATime ==
    /\ \A t, u \in Threads : (Holding(t) /\ Holding(u)) => t = u
    /\ (\E t \in Threads : Holding(t)) => locked

\* C19 witness: a thread holds the lock while two more wait for it
C19_Witness ==
    \E t \in Threads :
        /\ thread_pc[t] = "print"
        /\ Cardinality({u \in Threads : thread_pc[u] = "acquire"}) >= 2

\* C20: a thread that has acquired the lock releases it in the end, also
\* when memorySearch or print raised; under fair scheduling every thread
\* started terminates, the join loop of the main thread completes and the
\* main thread reaches its last print and is done.
C20_BenchmarkTerminates ==
    /\ \A t \in Threads : Holding(t) ~> (thread_pc[t] = "done" /\ ~locked)
    /\ \A t \in Threads : (thread_pc[t] = "acquire") ~> (thread_pc[t] = "done")
    /\ <>(main_pc = "done" /\ ~locked)

\* C20 witness: the benchmark is done and a thread ended by an exception
C20_Witness ==
    /\ main_pc = "done"
    /\ ~locked
    /\ \E t \in Threads : raised[t]
    /\ \A t \in Threads : thread_pc[t] = "done"

====
